---- MODULE Spec2Model ----
(***************************************************************************)
(* A model of esriscraper: the layer downloader with its retry wrapper     *)
(* (scrape.py), the archive/transfer post-processing hook (utils.py), the  *)
(* discovery walk (explore.py) and the duplicate check (check.py).         *)
(*                                                                         *)
(* Names (folders, services, layers) are Python strings; they are modelled *)
(* as sequences of one-character strings so that joining, lower-casing and *)
(* suffixing are computed, not looked up.                                  *)
(***************************************************************************)
EXTENDS Integers, Sequences, FiniteSets, TLC

\* ------------------------------------------------------------------ bounds

\* Records served by the remote for the feature layer G/L of service A/M.
NumRecords == 2
\* Attempts one invocation of scrape_map_servers_wrap makes in the model.
MaxAttempts == 3
\* Times the downloader process is terminated or invoked again.
MaxRestarts == 1
\* Invocations of get_all_info.
MaxRuns == 3

\* ----------------------------------------------------------------- strings

SLASH == "/"

Range(s) == {s[i] : i \in DOMAIN s}

\* str.lower() on one character
LowerChar(c) ==
    CASE c = "A" -> "a"
      [] c = "B" -> "b"
      [] c = "F" -> "f"
      [] c = "G" -> "g"
      [] c = "L" -> "l"
      [] c = "M" -> "m"
      [] c = "R" -> "r"
      [] c = "X" -> "x"
      [] c = "Z" -> "z"
      [] OTHER -> c

\* str.lower()
Lower(s) == [i \in DOMAIN s |-> LowerChar(s[i])]

\* str(layer_id) for the one-digit ids of the model
IdStr(i) ==
    CASE i = 0 -> <<"0">>
      [] i = 1 -> <<"1">>
      [] i = 2 -> <<"2">>
      [] i = 3 -> <<"3">>
      [] OTHER -> <<"9">>

\* "/".join(parts)
RECURSIVE Join(_)
Join(parts) ==
    IF Len(parts) = 0 THEN <<>>
    ELSE IF Len(parts) = 1 THEN parts[1]
    ELSE parts[1] \o <<SLASH>> \o Join(Tail(parts))

\* list.reverse()
Reverse(s) == [i \in DOMAIN s |-> s[Len(s) + 1 - i]]

\* ------------------------------------------------------------- dictionaries

\* A Python dict is a sequence of [k, v] pairs in insertion order.
DictHas(d, k) == \E i \in DOMAIN d : d[i].k = k

DictGet(d, k, default) ==
    IF DictHas(d, k) THEN d[CHOOSE i \in DOMAIN d : d[i].k = k].v ELSE default

\* d[k] = v
DictSet(d, k, v) ==
    IF DictHas(d, k)
    THEN [i \in DOMAIN d |-> IF d[i].k = k THEN [k |-> k, v |-> v] ELSE d[i]]
    ELSE Append(d, [k |-> k, v |-> v])

\* An optional list: Python's None, or a list of names.
None == [isNone |-> TRUE, items |-> <<>>]
List(items) == [isNone |-> FALSE, items |-> items]

\* ------------------------------------------------------------ remote server

\* Names served by the remote catalog of the model.
nA == <<"A">>
na == <<"a">>
nZ == <<"Z">>
nF == <<"F">>
nX == <<"X">>
nFB == <<"F", "/", "B">>
tMap == <<"M">>
tGP == <<"G">>
svcA == <<"A", "/", "M">>
svca == <<"a", "/", "M">>
svcFB == <<"F", "/", "B", "/", "M">>

\* Folder listings: the reply to get_info('/<folder>').  Folder F has a sub
\* folder X; the folders X and F/X answer with an error object.
RemoteFolder(folder) ==
    CASE folder = <<>> ->
           [error |-> FALSE, folders |-> <<nF, nX>>,
            services |-> << [name |-> nA, type |-> tMap],
                            [name |-> na, type |-> tMap],
                            [name |-> nZ, type |-> tGP] >>]
      [] folder = nF ->
           [error |-> FALSE, folders |-> <<nX>>,
            services |-> << [name |-> nFB, type |-> tMap] >>]
      [] OTHER ->
           [error |-> TRUE, folders |-> <<>>, services |-> <<>>]

\* Layer definitions of a service: the 'layers' of the service's metadata.
\* kind is the layer's declared type.  Layer R of F/B/M is a raster catalog:
\* its type is 'Raster Layer' and its metadata lists sub layers.
RemoteLayers(service) ==
    CASE service = svcA ->
           << [id |-> 0, name |-> <<"G">>, parentLayerId |-> -1, subLayerIds |-> <<1>>, type |-> "Group Layer"],
              [id |-> 1, name |-> <<"L">>, parentLayerId |-> 0, subLayerIds |-> <<>>, type |-> "Feature Layer"],
              [id |-> 2, name |-> <<"R">>, parentLayerId |-> -1, subLayerIds |-> <<>>, type |-> "Raster Layer"] >>
      [] service = svca ->
           << [id |-> 0, name |-> <<"g">>, parentLayerId |-> -1, subLayerIds |-> <<1>>, type |-> "Group Layer"],
              [id |-> 1, name |-> <<"l">>, parentLayerId |-> 0, subLayerIds |-> <<>>, type |-> "Feature Layer"] >>
      [] service = svcFB ->
           << [id |-> 0, name |-> <<"L">>, parentLayerId |-> -1, subLayerIds |-> <<>>, type |-> "Feature Layer"],
              [id |-> 1, name |-> <<"R">>, parentLayerId |-> -1, subLayerIds |-> <<2>>, type |-> "Raster Layer"] >>
      [] OTHER -> <<>>

\* Records the remote holds for a layer; a raster layer does not support
\* the count query.
RemoteCount(service, id) ==
    IF service = svcA /\ id = 1 THEN NumRecords
    ELSE IF service = svcA /\ id = 2 THEN -1
    ELSE IF service = svcFB /\ id = 0 THEN 1
    ELSE IF service = svca /\ id = 1 THEN 1
    ELSE 0

\* dumper.get_metadata()['subLayers'] of a layer: non-empty for a group.
RemoteSubLayers(service, id) ==
    LET ls == RemoteLayers(service)
        l == ls[CHOOSE i \in DOMAIN ls : ls[i].id = id]
    IN l.subLayerIds

\* ------------------------------------------------------------------- state

VARIABLES
    \* configuration (arguments of the entry points)
    to_scrape,          \* dict: service -> [whitelist]; a missing 'whitelist' is None
    blacklist,          \* dict: service -> None (whole service) or list of layer names
    folder_blacklist,   \* list of folders get_all_info does not enter
    delay,              \* scrape_map_servers_wrap(delay=...)
    max_delay,          \* scrape_map_servers_wrap(max_delay=...)
    \* data folder
    status,             \* <layer>.geojsonl.status: "none" when the file is absent
    artifact,           \* <layer>.geojsonl: [exists, lines]
    stateFile,          \* <layer>.geojsonl.state: -1 when absent, else the cursor
    cfile,              \* <layer>.geojsonl.7z exists
    layers_list_file,   \* dict: service -> cached layers_list.json
    uploaded,           \* layers whose archive was copied to the bucket
    \* the downloader process
    pc,                 \* position in scrape_map_servers_wrap and its callees
    attempt,            \* scrape_map_servers_wrap: attempt
    svcIdx,             \* scrape_map_servers: position in to_scrape.items()
    layerIdx,           \* scrape_endpoint: position in all_layers
    cursor,             \* dumper._state: records the dumper has yielded so far
    fbuf,               \* lines written to the open artifact and not yet on disk
    hookSite,           \* which call of post_processing_func is running
    exc,                \* origin of the exception in flight
    \* history of the downloader
    sleeps,             \* the delays slept by this invocation of the wrapper
    restarts,           \* terminations / new invocations so far
    epCalled,           \* services scrape_endpoint was called for
    remoteReq,          \* remote requests issued by the downloader
    \* analysis folder
    servicesFile,       \* full_services_list.txt: one service name per line
    catalogFile,        \* all_layer_list.jsonl: one entry per line
    \* the discovery process (get_all_info)
    xpc,                \* position in get_all_info
    full_folder_map,    \* dict: folder -> visited
    folder_map,         \* the snapshot of full_folder_map a pass iterates over
    fi,                 \* position in folder_map.items()
    full_services_map,  \* dict: service -> fully enumerated
    all_layer_map,      \* keys (name, id) of the entries known to this run
    si,                 \* position in full_services_map.items()
    li,                 \* position in the service's all_layers
    \* history of discovery
    runs,               \* invocations of get_all_info so far
    xSvcReq,            \* services whose layer definitions were requested
    xReqCount,          \* per-service and per-layer requests issued so far
    xFolderLog,         \* folders queried by the current run, in order
    xAbort,             \* where the last run was aborted: step, service, layer position
    xSnap,              \* runs completed; the catalog and request count after the first;
                        \* the services file as the current run found it
    \* the duplicate check (run_checks)
    cpc,                \* position in run_checks
    full_list,          \* all_layer_list.jsonl as read: the catalog entries in file order
    done_layers,        \* (lowercase name, id) of the layers with status done, in
                        \* the order the set of them is iterated
    match_ignore,       \* run_checks(match_ignore=...)
    known_matches,      \* run_checks(known_matches=...)
    full_list_map,      \* dict: (lowercase name, id) -> catalog entry
    done_layers_expanded, \* dict: done layer -> its suffixes
    full_missing,       \* the catalog entries neither done nor ignored
    possible_matches,   \* dict: lowercase name -> list of (done layer, suffix)
    possible_best_matches, \* dict: lowercase name -> done layer; matches.json
    missing             \* need_to_check.json

scrapeVars == <<to_scrape, delay, max_delay, status, artifact, stateFile, cfile,
                layers_list_file, uploaded, pc, attempt, svcIdx, layerIdx, cursor,
                fbuf, hookSite, exc, sleeps, restarts, epCalled, remoteReq>>

sharedVars == <<blacklist, folder_blacklist>>

exploreVars == <<servicesFile, catalogFile, xpc, full_folder_map, folder_map, fi,
                 full_services_map, all_layer_map, si, li, runs, xSvcReq, xReqCount,
                 xFolderLog, xAbort, xSnap>>

checkVars == <<cpc, full_list, done_layers, match_ignore, known_matches, full_list_map,
               done_layers_expanded, full_missing, possible_matches,
               possible_best_matches, missing>>

vars == <<scrapeVars, sharedVars, exploreVars, checkVars>>

\* -------------------------------------------------- scrape.py: layer names

\* Mutant: no layer type is ignored.
IgnoreNoTypes == {}

\* ignore_layer_types=['Raster Layer']
ignore_layer_types == {"Raster Layer"}

\* layer_map[id]
LayerById(all_layers, id) ==
    all_layers[CHOOSE i \in DOMAIN all_layers : all_layers[i].id = id]

\* the while loop of get_full_layer_name: names from the layer up to the root
RECURSIVE NameParts(_, _)
NameParts(all_layers, curr) ==
    IF curr.parentLayerId = -1 THEN <<curr.name>>
    ELSE <<curr.name>> \o NameParts(all_layers, LayerById(all_layers, curr.parentLayerId))

\* scrape_endpoint.get_full_layer_name: the last part is suffixed _<id>
get_full_layer_name(all_layers, layer) ==
    LET parts == Reverse(NameParts(all_layers, layer))
        n == Len(parts)
        suffixed == SubSeq(parts, 1, n - 1) \o << parts[n] \o <<"_">> \o IdStr(layer.id) >>
    IN Join(suffixed)

\* The layers the downloader can meet: one status file per (service, name).
ScrapeServices == {svcA, svcFB}

LayerKeys ==
    UNION {{<<s, get_full_layer_name(RemoteLayers(s), RemoteLayers(s)[i])>> :
              i \in DOMAIN RemoteLayers(s)} : s \in ScrapeServices}

\* ------------------------------------------------ scrape.py: the downloader

\* The service and layer the downloader is at.
CurSvc == to_scrape[svcIdx].k
CurInfo == to_scrape[svcIdx].v
CurLayers == DictGet(layers_list_file, CurSvc, <<>>)
CurLayer == CurLayers[layerIdx]
CurName == get_full_layer_name(CurLayers, CurLayer)
CurKey == <<CurSvc, CurName>>

\* Leaving a layer, a service or the run resets the locals that go out of scope.
NoLayerLocals ==
    /\ cursor' = 0
    /\ fbuf' = <<>>
    /\ hookSite' = "none"

\* Mutant: the delay is not capped.
ToDelayUncapped(d, k, m) == d * k

\* scrape_map_servers_wrap: to_delay = delay * attempt, capped at max_delay
ToDelay(d, k, m) ==
    LET to_delay == d * k
    IN IF to_delay > m THEN m ELSE to_delay

\* scrape_map_servers_wrap: the sleep before an attempt and attempt += 1
WrapSleep ==
    /\ pc = "wrap_loop"
    /\ attempt < MaxAttempts
    /\ sleeps' = Append(sleeps, ToDelay(delay, attempt, max_delay))
    /\ attempt' = attempt + 1
    /\ svcIdx' = 1
    /\ pc' = "svc_loop"
    /\ UNCHANGED <<to_scrape, delay, max_delay, status, artifact, stateFile, cfile,
                   layers_list_file, uploaded, layerIdx, cursor, fbuf, hookSite, exc,
                   restarts, epCalled, remoteReq, sharedVars, checkVars, exploreVars>>

\* Mutant: the blacklist is not consulted.
SvcBlacklistIgnored(svc) == List(<<>>)

\* scrape_map_servers: svc_blacklist = blacklist.get(svc, [])
SvcBlacklist(svc) == DictGet(blacklist, svc, List(<<>>))

\* scrape_map_servers: the loop is over, it returns True and the wrapper returns
ScrapeServersReturn ==
    /\ pc = "svc_loop"
    /\ svcIdx > Len(to_scrape)
    /\ pc' = "returned"
    /\ svcIdx' = 0
    /\ UNCHANGED <<to_scrape, delay, max_delay, status, artifact, stateFile, cfile,
                   layers_list_file, uploaded, attempt, layerIdx, cursor, fbuf,
                   hookSite, exc, sleeps, restarts, epCalled, remoteReq, sharedVars, checkVars, exploreVars>>

\* scrape_map_servers: a service whose blacklist value is None is passed over
SvcSkipDenied ==
    /\ pc = "svc_loop"
    /\ svcIdx <= Len(to_scrape)
    /\ SvcBlacklist(CurSvc).isNone
    /\ svcIdx' = svcIdx + 1
    /\ UNCHANGED <<to_scrape, delay, max_delay, status, artifact, stateFile, cfile,
                   layers_list_file, uploaded, pc, attempt, layerIdx, cursor, fbuf,
                   hookSite, exc, sleeps, restarts, epCalled, remoteReq, sharedVars, checkVars, exploreVars>>

\* scrape_map_servers: scrape_endpoint is called for the service
SvcScrape ==
    /\ pc = "svc_loop"
    /\ svcIdx <= Len(to_scrape)
    /\ ~SvcBlacklist(CurSvc).isNone
    /\ epCalled' = epCalled \cup {CurSvc}
    /\ pc' = "ep_list"
    /\ UNCHANGED <<to_scrape, delay, max_delay, status, artifact, stateFile, cfile,
                   layers_list_file, uploaded, attempt, svcIdx, layerIdx, cursor, fbuf,
                   hookSite, exc, sleeps, restarts, remoteReq, sharedVars, checkVars, exploreVars>>

\* scrape_endpoint: the layer list, from layers_list.json or from the remote
EpListOk ==
    /\ pc = "ep_list"
    /\ IF DictHas(layers_list_file, CurSvc)
       THEN UNCHANGED <<layers_list_file, remoteReq>>
       ELSE /\ layers_list_file' = DictSet(layers_list_file, CurSvc, RemoteLayers(CurSvc))
            /\ remoteReq' = remoteReq \cup {[kind |-> "list", svc |-> CurSvc, name |-> <<>>]}
    /\ layerIdx' = 1
    /\ pc' = "layer_loop"
    /\ UNCHANGED <<to_scrape, delay, max_delay, status, artifact, stateFile, cfile,
                   uploaded, attempt, svcIdx, cursor, fbuf, hookSite, exc, sleeps,
                   restarts, epCalled, sharedVars, checkVars, exploreVars>>

\* scrape_endpoint: the request for the layer list fails
EpListFail ==
    /\ pc = "ep_list"
    /\ ~DictHas(layers_list_file, CurSvc)
    /\ remoteReq' = remoteReq \cup {[kind |-> "list", svc |-> CurSvc, name |-> <<>>]}
    /\ exc' = "list"
    /\ pc' = "wrap_except"
    /\ svcIdx' = 0
    /\ UNCHANGED <<to_scrape, delay, max_delay, status, artifact, stateFile, cfile,
                   layers_list_file, uploaded, attempt, layerIdx, cursor, fbuf,
                   hookSite, sleeps, restarts, epCalled, sharedVars, checkVars, exploreVars>>

\* scrape_endpoint: the blacklist / whitelist test of a layer name
LayerSkipped(layer_name, whitelist, svc_blacklist) ==
    \/ layer_name \in Range(svc_blacklist.items)
    \/ (~whitelist.isNone /\ layer_name \notin Range(whitelist.items))

\* scrape_endpoint: all layers were handled, the call returns
EpReturn ==
    /\ pc = "layer_loop"
    /\ layerIdx > Len(CurLayers)
    /\ layerIdx' = 0
    /\ svcIdx' = svcIdx + 1
    /\ pc' = "svc_loop"
    /\ UNCHANGED <<to_scrape, delay, max_delay, status, artifact, stateFile, cfile,
                   layers_list_file, uploaded, attempt, cursor, fbuf, hookSite, exc,
                   sleeps, restarts, epCalled, remoteReq, sharedVars, checkVars, exploreVars>>

\* scrape_endpoint: a layer the lists exclude
LayerSkip ==
    /\ pc = "layer_loop"
    /\ layerIdx <= Len(CurLayers)
    /\ LayerSkipped(CurName, CurInfo.whitelist, SvcBlacklist(CurSvc))
    /\ layerIdx' = layerIdx + 1
    /\ UNCHANGED <<to_scrape, delay, max_delay, status, artifact, stateFile, cfile,
                   layers_list_file, uploaded, pc, attempt, svcIdx, cursor, fbuf,
                   hookSite, exc, sleeps, restarts, epCalled, remoteReq, sharedVars, checkVars, exploreVars>>

\* Mutant: a first encounter goes to the metadata without writing 'wip'.
LayerBeginNoWip ==
    /\ pc = "layer_loop"
    /\ layerIdx <= Len(CurLayers)
    /\ ~LayerSkipped(CurName, CurInfo.whitelist, SvcBlacklist(CurSvc))
    /\ status[CurKey] = "none"
    /\ pc' = "meta"
    /\ UNCHANGED <<to_scrape, delay, max_delay, status, artifact, stateFile, cfile,
                   layers_list_file, uploaded, attempt, svcIdx, layerIdx, cursor, fbuf,
                   hookSite, exc, sleeps, restarts, epCalled, remoteReq, sharedVars, checkVars, exploreVars>>

\* scrape_endpoint: no status file, 'wip' is written
LayerBegin ==
    /\ pc = "layer_loop"
    /\ layerIdx <= Len(CurLayers)
    /\ ~LayerSkipped(CurName, CurInfo.whitelist, SvcBlacklist(CurSvc))
    /\ status[CurKey] = "none"
    /\ status' = [status EXCEPT ![CurKey] = "wip"]
    /\ pc' = "meta"
    /\ UNCHANGED <<to_scrape, delay, max_delay, artifact, stateFile, cfile,
                   layers_list_file, uploaded, attempt, svcIdx, layerIdx, cursor, fbuf,
                   hookSite, exc, sleeps, restarts, epCalled, remoteReq, sharedVars, checkVars, exploreVars>>

\* Mutant: a layer whose status file exists is passed over, the hook is not called.
LayerResumeSkips ==
    /\ pc = "layer_loop"
    /\ layerIdx <= Len(CurLayers)
    /\ ~LayerSkipped(CurName, CurInfo.whitelist, SvcBlacklist(CurSvc))
    /\ status[CurKey] # "none"
    /\ layerIdx' = layerIdx + 1
    /\ UNCHANGED <<to_scrape, delay, max_delay, status, artifact, stateFile, cfile,
                   layers_list_file, uploaded, pc, attempt, svcIdx, cursor, fbuf, hookSite,
                   exc, sleeps, restarts, epCalled, remoteReq, sharedVars, checkVars, exploreVars>>

\* scrape_endpoint: the status file exists, post_processing_func is called first
LayerResume ==
    /\ pc = "layer_loop"
    /\ layerIdx <= Len(CurLayers)
    /\ ~LayerSkipped(CurName, CurInfo.whitelist, SvcBlacklist(CurSvc))
    /\ status[CurKey] # "none"
    /\ hookSite' = "pre"
    /\ pc' = "h_start"
    /\ UNCHANGED <<to_scrape, delay, max_delay, status, artifact, stateFile, cfile,
                   layers_list_file, uploaded, attempt, svcIdx, layerIdx, cursor, fbuf,
                   exc, sleeps, restarts, epCalled, remoteReq, sharedVars, checkVars, exploreVars>>

\* A request about the layer the downloader is at.
LayerReq(kind) == [kind |-> kind, svc |-> CurSvc, name |-> CurName]

\* scrape_endpoint: dumper.get_metadata() fails
MetaFail ==
    /\ pc = "meta"
    /\ remoteReq' = remoteReq \cup {LayerReq("meta")}
    /\ exc' = "meta"
    /\ pc' = "wrap_except"
    /\ svcIdx' = 0
    /\ layerIdx' = 0
    /\ NoLayerLocals
    /\ UNCHANGED <<to_scrape, delay, max_delay, status, artifact, stateFile, cfile,
                   layers_list_file, uploaded, attempt, sleeps, restarts, epCalled,
                   sharedVars, checkVars, exploreVars>>

\* scrape_endpoint: the metadata has sub layers, the layer is a group
MetaNotLayer ==
    /\ pc = "meta"
    /\ Len(RemoteSubLayers(CurSvc, CurLayer.id)) > 0
    /\ remoteReq' = remoteReq \cup {LayerReq("meta")}
    /\ status' = [status EXCEPT ![CurKey] = "not_layer"]
    /\ layerIdx' = layerIdx + 1
    /\ pc' = "layer_loop"
    /\ NoLayerLocals
    /\ UNCHANGED <<to_scrape, delay, max_delay, artifact, stateFile, cfile,
                   layers_list_file, uploaded, attempt, svcIdx, exc, sleeps, restarts,
                   epCalled, sharedVars, checkVars, exploreVars>>

\* scrape_endpoint: the layer's type is one of ignore_layer_types
MetaIgnore ==
    /\ pc = "meta"
    /\ Len(RemoteSubLayers(CurSvc, CurLayer.id)) = 0
    /\ CurLayer.type \in ignore_layer_types
    /\ remoteReq' = remoteReq \cup {LayerReq("meta")}
    /\ status' = [status EXCEPT ![CurKey] = "ignore"]
    /\ layerIdx' = layerIdx + 1
    /\ pc' = "layer_loop"
    /\ NoLayerLocals
    /\ UNCHANGED <<to_scrape, delay, max_delay, artifact, stateFile, cfile,
                   layers_list_file, uploaded, attempt, svcIdx, exc, sleeps, restarts,
                   epCalled, sharedVars, checkVars, exploreVars>>

\* scrape_endpoint: prev_state is read from the .state file when there is one
PrevState(sf) == IF sf = -1 THEN 0 ELSE sf

\* scrape_endpoint: a layer to download; the dumper is seeded with prev_state and
\* the artifact is opened in append mode
DlOpen ==
    /\ pc = "meta"
    /\ Len(RemoteSubLayers(CurSvc, CurLayer.id)) = 0
    /\ CurLayer.type \notin ignore_layer_types
    /\ remoteReq' = remoteReq \cup {LayerReq("meta")}
    /\ cursor' = PrevState(stateFile[CurKey])
    /\ artifact' = [artifact EXCEPT ![CurKey].exists = TRUE]
    /\ fbuf' = <<>>
    /\ pc' = "dl_iter"
    /\ UNCHANGED <<to_scrape, delay, max_delay, status, stateFile, cfile,
                   layers_list_file, uploaded, attempt, svcIdx, layerIdx, hookSite, exc,
                   sleeps, restarts, epCalled, sharedVars, checkVars, exploreVars>>

\* Records of the layer the downloader is at.
CurCount == RemoteCount(CurSvc, CurLayer.id)

\* scrape_endpoint: the dumper yields the next record, a line is written
DlFeature ==
    /\ pc = "dl_iter"
    /\ cursor < CurCount
    /\ remoteReq' = remoteReq \cup {LayerReq("records")}
    /\ fbuf' = Append(fbuf, cursor + 1)
    /\ cursor' = cursor + 1
    /\ UNCHANGED <<to_scrape, delay, max_delay, status, artifact, stateFile, cfile,
                   layers_list_file, uploaded, pc, attempt, svcIdx, layerIdx, hookSite,
                   exc, sleeps, restarts, epCalled, sharedVars, checkVars, exploreVars>>

\* The buffered writer of the open artifact writes its lines out.
DlFlush ==
    /\ pc = "dl_iter"
    /\ fbuf # <<>>
    /\ artifact' = [artifact EXCEPT ![CurKey].lines = @ \o fbuf]
    /\ fbuf' = <<>>
    /\ UNCHANGED <<to_scrape, delay, max_delay, status, stateFile, cfile,
                   layers_list_file, uploaded, pc, attempt, svcIdx, layerIdx, cursor,
                   hookSite, exc, sleeps, restarts, epCalled, remoteReq, sharedVars, checkVars, exploreVars>>

\* Mutant: the except clause saves the state the dumper started from.
SavedStateInitial(c) == 0

\* scrape_endpoint: what the except clause writes to the .state file
SavedState(c) == c

\* scrape_endpoint: the request for the next records raises; the cursor is saved,
\* the artifact is closed and the exception is raised again
DlRaise ==
    /\ pc = "dl_iter"
    /\ cursor < CurCount
    /\ remoteReq' = remoteReq \cup {LayerReq("records")}
    /\ stateFile' = [stateFile EXCEPT ![CurKey] = SavedState(cursor)]
    /\ artifact' = [artifact EXCEPT ![CurKey].lines = @ \o fbuf]
    /\ exc' = "stream"
    /\ pc' = "wrap_except"
    /\ svcIdx' = 0
    /\ layerIdx' = 0
    /\ NoLayerLocals
    /\ UNCHANGED <<to_scrape, delay, max_delay, status, cfile, layers_list_file,
                   uploaded, attempt, sleeps, restarts, epCalled, sharedVars, checkVars, exploreVars>>

\* scrape_endpoint: the request for the next records raises and the process is
\* terminated inside the except clause, after the cursor was written to the
\* .state file and before the with block closes the artifact: the lines still
\* in the write buffer are gone
DlRaiseKilled ==
    /\ pc = "dl_iter"
    /\ cursor < CurCount
    /\ restarts < MaxRestarts
    /\ remoteReq' = remoteReq \cup {LayerReq("records")}
    /\ stateFile' = [stateFile EXCEPT ![CurKey] = SavedState(cursor)]
    /\ restarts' = restarts + 1
    /\ pc' = "wrap_loop"
    /\ attempt' = 0
    /\ sleeps' = <<>>
    /\ svcIdx' = 0
    /\ layerIdx' = 0
    /\ exc' = "none"
    /\ NoLayerLocals
    /\ UNCHANGED <<to_scrape, delay, max_delay, status, artifact, cfile, layers_list_file,
                   uploaded, epCalled, sharedVars, checkVars, exploreVars>>

\* scrape_endpoint: the stream is exhausted; the artifact is closed, 'downloaded'
\* is written and post_processing_func is called
DlDone ==
    /\ pc = "dl_iter"
    /\ cursor = CurCount
    /\ artifact' = [artifact EXCEPT ![CurKey].lines = @ \o fbuf]
    /\ fbuf' = <<>>
    /\ status' = [status EXCEPT ![CurKey] = "downloaded"]
    /\ hookSite' = "post"
    /\ pc' = "h_start"
    /\ UNCHANGED <<to_scrape, delay, max_delay, stateFile, cfile, layers_list_file,
                   uploaded, attempt, svcIdx, layerIdx, cursor, exc, sleeps, restarts,
                   epCalled, remoteReq, sharedVars, checkVars, exploreVars>>

\* ------------------------------------- utils.py: compress_and_push_to_gcs

hookUnchanged == <<to_scrape, delay, max_delay, stateFile, layers_list_file, attempt,
                   cursor, fbuf, sleeps, restarts, epCalled, remoteReq, sharedVars, checkVars, exploreVars>>

\* compress_and_push_to_gcs: the first read of the status; 'downloaded' goes to
\* compress_file, which runs 7z only when there is no archive yet
HookStart ==
    /\ pc = "h_start"
    /\ pc' = IF status[CurKey] = "downloaded"
             THEN (IF cfile[CurKey] THEN "h_wcomp" ELSE "h_7z")
             ELSE "h_mid"
    /\ UNCHANGED <<status, artifact, cfile, uploaded, svcIdx, layerIdx, hookSite, exc>>
    /\ UNCHANGED hookUnchanged

\* compress_file: 7z creates the archive
Hook7z ==
    /\ pc = "h_7z"
    /\ cfile' = [cfile EXCEPT ![CurKey] = TRUE]
    /\ pc' = "h_unlink"
    /\ UNCHANGED <<status, artifact, uploaded, svcIdx, layerIdx, hookSite, exc>>
    /\ UNCHANGED hookUnchanged

\* run_external: the command fails and an exception is raised
HookCmdFail ==
    /\ pc \in {"h_7z", "h_gsutil"}
    /\ exc' = IF pc = "h_7z" THEN "7z" ELSE "gsutil"
    /\ pc' = "wrap_except"
    /\ svcIdx' = 0
    /\ layerIdx' = 0
    /\ NoLayerLocals
    /\ UNCHANGED <<to_scrape, delay, max_delay, status, artifact, stateFile, cfile,
                   layers_list_file, uploaded, attempt, sleeps, restarts, epCalled,
                   remoteReq, sharedVars, checkVars, exploreVars>>

\* compress_file: file.unlink()
HookUnlink ==
    /\ pc = "h_unlink"
    /\ artifact' = [artifact EXCEPT ![CurKey] = [exists |-> FALSE, lines |-> <<>>]]
    /\ pc' = "h_wcomp"
    /\ UNCHANGED <<status, cfile, uploaded, svcIdx, layerIdx, hookSite, exc>>
    /\ UNCHANGED hookUnchanged

\* compress_file: sfile.write_text('compressed')
HookWriteCompressed ==
    /\ pc = "h_wcomp"
    /\ status' = [status EXCEPT ![CurKey] = "compressed"]
    /\ pc' = "h_mid"
    /\ UNCHANGED <<artifact, cfile, uploaded, svcIdx, layerIdx, hookSite, exc>>
    /\ UNCHANGED hookUnchanged

\* compress_and_push_to_gcs: the second read of the status; 'compressed' goes to
\* transfer_file, which uploads only when the archive exists
HookMid ==
    /\ pc = "h_mid"
    /\ pc' = IF status[CurKey] = "compressed"
             THEN (IF cfile[CurKey] THEN "h_gsutil" ELSE "h_wdone")
             ELSE "h_ret"
    /\ UNCHANGED <<status, artifact, cfile, uploaded, svcIdx, layerIdx, hookSite, exc>>
    /\ UNCHANGED hookUnchanged

\* transfer_file: gsutil copies the archive to the bucket
HookGsutil ==
    /\ pc = "h_gsutil"
    /\ uploaded' = uploaded \cup {CurKey}
    /\ pc' = "h_cunlink"
    /\ UNCHANGED <<status, artifact, cfile, svcIdx, layerIdx, hookSite, exc>>
    /\ UNCHANGED hookUnchanged

\* transfer_file: cfile.unlink()
HookArchiveUnlink ==
    /\ pc = "h_cunlink"
    /\ cfile' = [cfile EXCEPT ![CurKey] = FALSE]
    /\ pc' = "h_wdone"
    /\ UNCHANGED <<status, artifact, uploaded, svcIdx, layerIdx, hookSite, exc>>
    /\ UNCHANGED hookUnchanged

\* transfer_file: sfile.write_text('done')
HookWriteDone ==
    /\ pc = "h_wdone"
    /\ status' = [status EXCEPT ![CurKey] = "done"]
    /\ pc' = "h_ret"
    /\ UNCHANGED <<artifact, cfile, uploaded, svcIdx, layerIdx, hookSite, exc>>
    /\ UNCHANGED hookUnchanged

\* Mutant: every status is reported as complete.
CompletedAlways(st) == TRUE

\* Mutant: 'done' is not reported as complete.
CompletedWithoutDone(st) == st \in {"not_layer", "ignore"}

\* compress_and_push_to_gcs: return status in ['done', 'not_layer', 'ignore']
Completed(st) == st \in {"done", "not_layer", "ignore"}

\* Mutant: the result of the hook called before the download is not used.
HookReturnIgnoresResult ==
    /\ pc = "h_ret"
    /\ IF hookSite = "pre"
       THEN /\ pc' = "meta"
            /\ UNCHANGED layerIdx
       ELSE /\ pc' = "layer_loop"
            /\ layerIdx' = layerIdx + 1
    /\ NoLayerLocals
    /\ UNCHANGED <<to_scrape, delay, max_delay, status, artifact, stateFile, cfile,
                   layers_list_file, uploaded, attempt, svcIdx, exc, sleeps, restarts,
                   epCalled, remoteReq, sharedVars, checkVars, exploreVars>>

\* The hook returns to scrape_endpoint: called before the download, a true result
\* skips the layer and a false one goes on to the metadata; called after the
\* download, the result is not used.
HookReturn ==
    /\ pc = "h_ret"
    /\ IF hookSite = "pre" /\ ~Completed(status[CurKey])
       THEN /\ pc' = "meta"
            /\ UNCHANGED layerIdx
       ELSE /\ pc' = "layer_loop"
            /\ layerIdx' = layerIdx + 1
    /\ NoLayerLocals
    /\ UNCHANGED <<to_scrape, delay, max_delay, status, artifact, stateFile, cfile,
                   layers_list_file, uploaded, attempt, svcIdx, exc, sleeps, restarts,
                   epCalled, remoteReq, sharedVars, checkVars, exploreVars>>

\* ------------------------------------- scrape.py: scrape_map_servers_wrap

\* Mutant: the wrapper gives up on the second failed attempt.
WrapExceptGivesUp ==
    /\ pc = "wrap_except"
    /\ exc' = "none"
    /\ pc' = IF attempt >= 2 THEN "failed" ELSE "wrap_loop"
    /\ UNCHANGED <<to_scrape, delay, max_delay, status, artifact, stateFile, cfile,
                   layers_list_file, uploaded, attempt, svcIdx, layerIdx, cursor, fbuf,
                   hookSite, sleeps, restarts, epCalled, remoteReq, sharedVars, checkVars, exploreVars>>

\* scrape_map_servers_wrap: except Exception: the failure is logged, the loop goes on
WrapExcept ==
    /\ pc = "wrap_except"
    /\ exc' = "none"
    /\ pc' = "wrap_loop"
    /\ UNCHANGED <<to_scrape, delay, max_delay, status, artifact, stateFile, cfile,
                   layers_list_file, uploaded, attempt, svcIdx, layerIdx, cursor, fbuf,
                   hookSite, sleeps, restarts, epCalled, remoteReq, sharedVars, checkVars, exploreVars>>

\* The process is terminated (or has returned) and scrape_map_servers_wrap is
\* invoked again: the files stay, the process's memory and the lines still in
\* the artifact's write buffer are gone.
Restart ==
    /\ pc \notin {"off"}
    /\ restarts < MaxRestarts
    /\ restarts' = restarts + 1
    /\ pc' = "wrap_loop"
    /\ attempt' = 0
    /\ sleeps' = <<>>
    /\ svcIdx' = 0
    /\ layerIdx' = 0
    /\ exc' = "none"
    /\ NoLayerLocals
    /\ UNCHANGED <<to_scrape, delay, max_delay, status, artifact, stateFile, cfile,
                   layers_list_file, uploaded, epCalled, remoteReq, sharedVars, checkVars, exploreVars>>

\* ------------------------------------------------------------ configuration

wlGL1 == <<"G", "/", "L", "_", "1">>
wlL0 == <<"L", "_", "0">>
blR2 == <<"R", "_", "2">>

\* to_scrape with no whitelist, with one whitelisted layer per service, and with
\* an empty whitelist for A/M
ToScrapeAll ==
    << [k |-> svcA, v |-> [whitelist |-> None]],
       [k |-> svcFB, v |-> [whitelist |-> None]] >>
ToScrapeListed ==
    << [k |-> svcA, v |-> [whitelist |-> List(<<wlGL1>>)]],
       [k |-> svcFB, v |-> [whitelist |-> List(<<wlL0>>)]] >>
ToScrapeEmpty ==
    << [k |-> svcA, v |-> [whitelist |-> List(<<>>)]],
       [k |-> svcFB, v |-> [whitelist |-> None]] >>

\* blacklist: empty, service F/B/M excluded entirely, layer R_2 of A/M excluded
BlacklistEmpty == <<>>
BlacklistService == << [k |-> svcFB, v |-> None] >>
BlacklistLayer == << [k |-> svcA, v |-> List(<<blR2>>)] >>

\* The arguments the downloader is run with.
ScrapeConfigs ==
    { [to_scrape |-> ToScrapeAll, blacklist |-> BlacklistEmpty, delay |-> 2, max_delay |-> 3],
      [to_scrape |-> ToScrapeAll, blacklist |-> BlacklistService, delay |-> 1, max_delay |-> 1],
      [to_scrape |-> ToScrapeListed, blacklist |-> BlacklistService, delay |-> 2, max_delay |-> 3],
      [to_scrape |-> ToScrapeListed, blacklist |-> BlacklistLayer, delay |-> 0, max_delay |-> 2],
      [to_scrape |-> ToScrapeEmpty, blacklist |-> BlacklistLayer, delay |-> 1, max_delay |-> 1] }

\* The discovery process is not running.
ExploreOff ==
    /\ servicesFile = <<>>
    /\ catalogFile = <<>>
    /\ xpc = "off"
    /\ full_folder_map = <<>>
    /\ folder_map = <<>>
    /\ fi = 0
    /\ full_services_map = <<>>
    /\ all_layer_map = {}
    /\ si = 0
    /\ li = 0
    /\ runs = 0
    /\ xSvcReq = {}
    /\ xReqCount = 0
    /\ xFolderLog = <<>>
    /\ xAbort = [at |-> "none", svc |-> <<>>, li |-> 0]
    /\ xSnap = [n |-> 0, catalog |-> <<>>, reqs |-> 0, marks |-> <<>>]

\* run_checks is not running.
CheckOff ==
    /\ cpc = "off"
    /\ full_list = <<>>
    /\ done_layers = <<>>
    /\ match_ignore = <<>>
    /\ known_matches = <<>>
    /\ full_list_map = <<>>
    /\ done_layers_expanded = <<>>
    /\ full_missing = <<>>
    /\ possible_matches = <<>>
    /\ possible_best_matches = <<>>
    /\ missing = <<>>

\* The data folder before the first run, and a process that is not running.
ScrapeBlank ==
    /\ status = [k \in LayerKeys |-> "none"]
    /\ artifact = [k \in LayerKeys |-> [exists |-> FALSE, lines |-> <<>>]]
    /\ stateFile = [k \in LayerKeys |-> -1]
    /\ cfile = [k \in LayerKeys |-> FALSE]
    /\ layers_list_file = <<>>
    /\ uploaded = {}
    /\ attempt = 0
    /\ svcIdx = 0
    /\ layerIdx = 0
    /\ cursor = 0
    /\ fbuf = <<>>
    /\ hookSite = "none"
    /\ exc = "none"
    /\ sleeps = <<>>
    /\ restarts = 0
    /\ epCalled = {}
    /\ remoteReq = {}

InitScrape ==
    /\ \E c \in ScrapeConfigs :
          /\ to_scrape = c.to_scrape
          /\ blacklist = c.blacklist
          /\ delay = c.delay
          /\ max_delay = c.max_delay
    /\ folder_blacklist = <<>>
    /\ ScrapeBlank
    /\ pc = "wrap_loop"
    /\ ExploreOff
    /\ CheckOff

NextScrape ==
    \/ WrapSleep \/ ScrapeServersReturn \/ SvcSkipDenied \/ SvcScrape
    \/ EpListOk \/ EpListFail \/ EpReturn \/ LayerSkip \/ LayerBegin \/ LayerResume
    \/ MetaFail \/ MetaNotLayer \/ MetaIgnore \/ DlOpen
    \/ DlFeature \/ DlFlush \/ DlRaise \/ DlRaiseKilled \/ DlDone
    \/ HookStart \/ Hook7z \/ HookCmdFail \/ HookUnlink \/ HookWriteCompressed
    \/ HookMid \/ HookGsutil \/ HookArchiveUnlink \/ HookWriteDone \/ HookReturn
    \/ WrapExcept \/ Restart

SpecScrape == InitScrape /\ [][NextScrape]_vars

\* The steps the running program takes by itself: every step of the scraper
\* except a failing request, a failing external command and a termination.
ScrapeProgress ==
    \/ WrapSleep \/ ScrapeServersReturn \/ SvcSkipDenied \/ SvcScrape
    \/ EpListOk \/ EpReturn \/ LayerSkip \/ LayerBegin \/ LayerResume
    \/ MetaNotLayer \/ MetaIgnore \/ DlOpen \/ DlFeature \/ DlFlush \/ DlDone
    \/ HookStart \/ Hook7z \/ HookUnlink \/ HookWriteCompressed
    \/ HookMid \/ HookGsutil \/ HookArchiveUnlink \/ HookWriteDone \/ HookReturn
    \/ WrapExcept

\* The scraper keeps running: a step it can take is eventually taken.
SpecScrapeLive == SpecScrape /\ WF_vars(ScrapeProgress)

\* ------------------------------------------------ explore.py: get_all_info

\* interested_server_types=['MapServer', 'FeatureServer']
interested_server_types == {tMap}

\* Mutant: the marks are not read.
LoadServicesNone(lines, map) == map

\* get_all_info: the marks of full_services_list.txt, read into full_services_map
RECURSIVE LoadServices(_, _)
LoadServices(lines, map) ==
    IF lines = <<>> THEN map
    ELSE LoadServices(Tail(lines), DictSet(map, Head(lines), TRUE))

\* get_all_info: a new folder's path, folder + '/' + f without a leading '/'
FolderPath(folder, f) ==
    LET joined == folder \o <<SLASH>> \o f
    IN IF Head(joined) = SLASH THEN Tail(joined) ELSE joined

\* get_all_info: the sub folders of a listing enter full_folder_map as unvisited,
\* unless folder_blacklist names them
RECURSIVE MergeFolders(_, _, _)
MergeFolders(map, folder, new_folders) ==
    IF new_folders = <<>> THEN map
    ELSE LET f == FolderPath(folder, Head(new_folders))
         IN MergeFolders(IF f \in Range(folder_blacklist) THEN map
                         ELSE DictSet(map, f, FALSE),
                         folder, Tail(new_folders))

\* get_all_info: s_full_name = f'{s_name}/{s_type}'
ServiceFullName(sv) == sv.name \o <<SLASH>> \o sv.type

\* get_all_info: s_full_name in blacklist and blacklist[s_full_name] is None
DeniedEntirely(s_full_name) ==
    DictHas(blacklist, s_full_name) /\ DictGet(blacklist, s_full_name, List(<<>>)).isNone

\* get_all_info: the services of a listing enter full_services_map as not yet
\* enumerated, unless of another type, excluded entirely or already there
RECURSIVE MergeServices(_, _)
MergeServices(map, new_services) ==
    IF new_services = <<>> THEN map
    ELSE LET sv == Head(new_services)
             s_full_name == ServiceFullName(sv)
             keep == \/ sv.type \notin interested_server_types
                     \/ DeniedEntirely(s_full_name)
                     \/ DictHas(map, s_full_name)
         IN MergeServices(IF keep THEN map ELSE DictSet(map, s_full_name, FALSE),
                          Tail(new_services))

\* get_all_info.get_full_layer_name: the names from the root, joined, no suffix
explore_full_layer_name(all_layers, layer) ==
    Join(Reverse(NameParts(all_layers, layer)))

\* get_all_info: the keys (e['name'], e['id']) of the lines of all_layer_list.jsonl
CatalogKeys(lines) == {<<lines[i].name, lines[i].id>> : i \in DOMAIN lines}

XCurFolder == folder_map[fi].k
XCurSvc == full_services_map[si].k
XCurLayers == RemoteLayers(XCurSvc)
XCurLayer == XCurLayers[li]

\* Memory of a run that has ended.
XNoLocals ==
    /\ full_folder_map' = <<>>
    /\ folder_map' = <<>>
    /\ fi' = 0
    /\ full_services_map' = <<>>
    /\ all_layer_map' = {}
    /\ si' = 0
    /\ li' = 0

\* get_all_info starts: the folder map holds the root, the marks are read
XStart ==
    /\ xpc = "idle"
    /\ runs < MaxRuns
    /\ runs' = runs + 1
    /\ full_folder_map' = << [k |-> <<>>, v |-> FALSE] >>
    /\ full_services_map' = LoadServices(servicesFile, <<>>)
    /\ xFolderLog' = <<>>
    /\ xSnap' = [xSnap EXCEPT !.marks = servicesFile]
    /\ xpc' = "pass"
    /\ UNCHANGED <<servicesFile, catalogFile, folder_map, fi, all_layer_map, si, li,
                   xSvcReq, xReqCount, xAbort, scrapeVars, sharedVars, checkVars>>

\* get_all_info: a pass starts on a copy of the folder map
XPass ==
    /\ xpc = "pass"
    /\ folder_map' = full_folder_map
    /\ fi' = 1
    /\ xpc' = "folder"
    /\ UNCHANGED <<servicesFile, catalogFile, full_folder_map, full_services_map,
                   all_layer_map, si, li, runs, xSvcReq, xReqCount, xFolderLog, xAbort,
                   xSnap, scrapeVars, sharedVars, checkVars>>

\* get_all_info: a folder of the snapshot that was visited is passed over
XFolderSkip ==
    /\ xpc = "folder"
    /\ fi <= Len(folder_map)
    /\ folder_map[fi].v
    /\ fi' = fi + 1
    /\ UNCHANGED <<servicesFile, catalogFile, xpc, full_folder_map, folder_map,
                   full_services_map, all_layer_map, si, li, runs, xSvcReq, xReqCount,
                   xFolderLog, xAbort, xSnap, scrapeVars, sharedVars, checkVars>>

\* get_all_info: an unvisited folder is queried and marked; unless the reply is an
\* error its folders and services are merged in
XFolderQuery ==
    /\ xpc = "folder"
    /\ fi <= Len(folder_map)
    /\ ~folder_map[fi].v
    /\ LET info == RemoteFolder(XCurFolder)
           marked == DictSet(full_folder_map, XCurFolder, TRUE)
       IN IF info.error
          THEN /\ full_folder_map' = marked
               /\ UNCHANGED full_services_map
          ELSE /\ full_folder_map' = MergeFolders(marked, XCurFolder, info.folders)
               /\ full_services_map' = MergeServices(full_services_map, info.services)
    /\ xFolderLog' = Append(xFolderLog, XCurFolder)
    /\ fi' = fi + 1
    /\ UNCHANGED <<servicesFile, catalogFile, xpc, folder_map, all_layer_map, si, li,
                   runs, xSvcReq, xReqCount, xAbort, xSnap, scrapeVars, sharedVars, checkVars>>

\* get_all_info: the query of a folder raises, the run is over
XFolderFail ==
    /\ xpc = "folder"
    /\ fi <= Len(folder_map)
    /\ ~folder_map[fi].v
    /\ xFolderLog' = Append(xFolderLog, XCurFolder)
    /\ xAbort' = [at |-> "folder", svc |-> <<>>, li |-> 0]
    /\ xpc' = "idle"
    /\ XNoLocals
    /\ UNCHANGED <<servicesFile, catalogFile, runs, xSvcReq, xReqCount, xSnap,
                   scrapeVars, sharedVars, checkVars>>

\* Mutant: the walk ends after its first pass.
AllVisitedAlways(map) == TRUE

\* get_all_info: all([v != False for v in full_folder_map.values()])
AllVisited(map) == \A i \in DOMAIN map : map[i].v # FALSE

\* get_all_info: the pass is over; the walk ends when no folder is unvisited
XPassEnd ==
    /\ xpc = "folder"
    /\ fi > Len(folder_map)
    /\ xpc' = IF AllVisited(full_folder_map) THEN "open" ELSE "pass"
    /\ fi' = 0
    /\ folder_map' = <<>>
    /\ UNCHANGED <<servicesFile, catalogFile, full_folder_map, full_services_map,
                   all_layer_map, si, li, runs, xSvcReq, xReqCount, xFolderLog, xAbort,
                   xSnap, scrapeVars, sharedVars, checkVars>>

\* Mutant: all_layer_list.jsonl is opened for writing too, and so emptied.
XOpenTruncatesCatalog ==
    /\ xpc = "open"
    /\ all_layer_map' = CatalogKeys(catalogFile)
    /\ servicesFile' = <<>>
    /\ catalogFile' = <<>>
    /\ si' = 1
    /\ xpc' = "svc"
    /\ UNCHANGED <<full_folder_map, folder_map, fi, full_services_map, li,
                   runs, xSvcReq, xReqCount, xFolderLog, xAbort, xSnap, scrapeVars,
                   sharedVars, checkVars>>

\* get_all_info: the catalog is read, full_services_list.txt is opened for
\* writing (and so emptied), all_layer_list.jsonl for appending
XOpen ==
    /\ xpc = "open"
    /\ all_layer_map' = CatalogKeys(catalogFile)
    /\ servicesFile' = <<>>
    /\ si' = 1
    /\ xpc' = "svc"
    /\ UNCHANGED <<catalogFile, full_folder_map, folder_map, fi, full_services_map, li,
                   runs, xSvcReq, xReqCount, xFolderLog, xAbort, xSnap, scrapeVars,
                   sharedVars, checkVars>>

\* get_all_info: svc_blacklist = blacklist.get(service, [])
XSvcBlacklist(service) == DictGet(blacklist, service, List(<<>>))

\* Mutant: a service already marked is passed over without being written back.
XSvcContinueNoWrite ==
    /\ xpc = "svc"
    /\ si <= Len(full_services_map)
    /\ full_services_map[si].v \/ XSvcBlacklist(XCurSvc).isNone
    /\ servicesFile' = servicesFile
    /\ si' = si + 1
    /\ UNCHANGED <<catalogFile, xpc, full_folder_map, folder_map, fi, full_services_map,
                   all_layer_map, li, runs, xSvcReq, xReqCount, xFolderLog, xAbort,
                   xSnap, scrapeVars, sharedVars, checkVars>>

\* get_all_info: the two 'continue' branches of the service loop: a service
\* already marked is written back, an unmarked one whose blacklist value is None
\* is passed over
XSvcContinue ==
    /\ xpc = "svc"
    /\ si <= Len(full_services_map)
    /\ full_services_map[si].v \/ XSvcBlacklist(XCurSvc).isNone
    /\ servicesFile' = IF full_services_map[si].v
                       THEN Append(servicesFile, XCurSvc)
                       ELSE servicesFile
    /\ si' = si + 1
    /\ UNCHANGED <<catalogFile, xpc, full_folder_map, folder_map, fi, full_services_map,
                   all_layer_map, li, runs, xSvcReq, xReqCount, xFolderLog, xAbort,
                   xSnap, scrapeVars, sharedVars, checkVars>>

\* Mutant: the service is written to full_services_list.txt as soon as its layer
\* definitions are fetched.
XSvcInfoMarksEarly ==
    /\ xpc = "svc"
    /\ si <= Len(full_services_map)
    /\ ~full_services_map[si].v
    /\ ~XSvcBlacklist(XCurSvc).isNone
    /\ xSvcReq' = xSvcReq \cup {XCurSvc}
    /\ xReqCount' = xReqCount + 1
    /\ full_services_map' = DictSet(full_services_map, XCurSvc, TRUE)
    /\ servicesFile' = Append(servicesFile, XCurSvc)
    /\ li' = 1
    /\ xpc' = "layer"
    /\ UNCHANGED <<catalogFile, full_folder_map, folder_map, fi,
                   all_layer_map, si, runs, xFolderLog, xAbort, xSnap, scrapeVars,
                   sharedVars, checkVars>>

\* get_all_info: the layer definitions of an unmarked service are fetched
XSvcInfo ==
    /\ xpc = "svc"
    /\ si <= Len(full_services_map)
    /\ ~full_services_map[si].v
    /\ ~XSvcBlacklist(XCurSvc).isNone
    /\ xSvcReq' = xSvcReq \cup {XCurSvc}
    /\ xReqCount' = xReqCount + 1
    /\ full_services_map' = DictSet(full_services_map, XCurSvc, TRUE)
    /\ li' = 1
    /\ xpc' = "layer"
    /\ UNCHANGED <<servicesFile, catalogFile, full_folder_map, folder_map, fi,
                   all_layer_map, si, runs, xFolderLog, xAbort, xSnap, scrapeVars,
                   sharedVars, checkVars>>

\* get_all_info: the request for a service's layer definitions raises
XSvcFail ==
    /\ xpc = "svc"
    /\ si <= Len(full_services_map)
    /\ ~full_services_map[si].v
    /\ ~XSvcBlacklist(XCurSvc).isNone
    /\ xSvcReq' = xSvcReq \cup {XCurSvc}
    /\ xReqCount' = xReqCount + 1
    /\ xAbort' = [at |-> "svc", svc |-> XCurSvc, li |-> 0]
    /\ xpc' = "idle"
    /\ XNoLocals
    /\ UNCHANGED <<servicesFile, catalogFile, runs, xFolderLog, xSnap, scrapeVars,
                   sharedVars, checkVars>>

\* get_all_info: a layer is passed over when it has sub layers, when the service's
\* blacklist names it, or when the catalog holds its key
XLayerSkipped(service, all_layers, layer, known) ==
    \/ Len(layer.subLayerIds) > 0
    \/ (explore_full_layer_name(all_layers, layer) \o <<"_">> \o IdStr(layer.id))
          \in Range(XSvcBlacklist(service).items)
    \/ <<service \o <<SLASH>> \o explore_full_layer_name(all_layers, layer), layer.id>>
          \in known

XLayerSkip ==
    /\ xpc = "layer"
    /\ li <= Len(XCurLayers)
    /\ XLayerSkipped(XCurSvc, XCurLayers, XCurLayer, all_layer_map)
    /\ li' = li + 1
    /\ UNCHANGED <<servicesFile, catalogFile, xpc, full_folder_map, folder_map, fi,
                   full_services_map, all_layer_map, si, runs, xSvcReq, xReqCount,
                   xFolderLog, xAbort, xSnap, scrapeVars, sharedVars, checkVars>>

\* get_all_info: the entry of a layer; fcount is -1 when the remote does not
\* support the count
NewEntry(service, all_layers, layer) ==
    [name |-> service \o <<SLASH>> \o explore_full_layer_name(all_layers, layer),
     id |-> layer.id,
     service |-> service,
     fcount |-> RemoteCount(service, layer.id)]

\* get_all_info: the layer's metadata and count are fetched, its entry is
\* appended to the catalog and flushed
XLayerAdd ==
    /\ xpc = "layer"
    /\ li <= Len(XCurLayers)
    /\ ~XLayerSkipped(XCurSvc, XCurLayers, XCurLayer, all_layer_map)
    /\ LET entry == NewEntry(XCurSvc, XCurLayers, XCurLayer)
       IN /\ catalogFile' = Append(catalogFile, entry)
          /\ all_layer_map' = all_layer_map \cup {<<entry.name, entry.id>>}
    /\ xReqCount' = xReqCount + 1
    /\ li' = li + 1
    /\ UNCHANGED <<servicesFile, xpc, full_folder_map, folder_map, fi,
                   full_services_map, si, runs, xSvcReq, xFolderLog, xAbort, xSnap,
                   scrapeVars, sharedVars, checkVars>>

\* get_all_info: a request about the layer raises
XLayerFail ==
    /\ xpc = "layer"
    /\ li <= Len(XCurLayers)
    /\ ~XLayerSkipped(XCurSvc, XCurLayers, XCurLayer, all_layer_map)
    /\ xReqCount' = xReqCount + 1
    /\ xAbort' = [at |-> "layer", svc |-> XCurSvc, li |-> li]
    /\ xpc' = "idle"
    /\ XNoLocals
    /\ UNCHANGED <<servicesFile, catalogFile, runs, xSvcReq, xFolderLog, xSnap,
                   scrapeVars, sharedVars, checkVars>>

\* get_all_info: every layer of the service was handled, the service is marked
XSvcDone ==
    /\ xpc = "layer"
    /\ li > Len(XCurLayers)
    /\ servicesFile' = Append(servicesFile, XCurSvc)
    /\ li' = 0
    /\ si' = si + 1
    /\ xpc' = "svc"
    /\ UNCHANGED <<catalogFile, full_folder_map, folder_map, fi, full_services_map,
                   all_layer_map, runs, xSvcReq, xReqCount, xFolderLog, xAbort, xSnap,
                   scrapeVars, sharedVars, checkVars>>

\* get_all_info: every service was handled, the run returns
XFinish ==
    /\ xpc = "svc"
    /\ si > Len(full_services_map)
    /\ xAbort' = [at |-> "none", svc |-> <<>>, li |-> 0]
    /\ xSnap' = IF xSnap.n > 0 THEN [xSnap EXCEPT !.n = @ + 1]
                ELSE [xSnap EXCEPT !.n = 1, !.catalog = catalogFile, !.reqs = xReqCount]
    /\ xpc' = "idle"
    /\ XNoLocals
    /\ UNCHANGED <<servicesFile, catalogFile, runs, xSvcReq, xReqCount, xFolderLog,
                   scrapeVars, sharedVars, checkVars>>

\* The arguments discovery is run with.
ExploreConfigs ==
    { [blacklist |-> BlacklistEmpty, folder_blacklist |-> <<>>],
      [blacklist |-> BlacklistService, folder_blacklist |-> <<nX>>],
      [blacklist |-> BlacklistLayer, folder_blacklist |-> <<>>] }

InitExplore ==
    /\ \E c \in ExploreConfigs :
          /\ blacklist = c.blacklist
          /\ folder_blacklist = c.folder_blacklist
    /\ to_scrape = <<>>
    /\ delay = 0
    /\ max_delay = 0
    /\ ScrapeBlank
    /\ pc = "off"
    /\ servicesFile = <<>>
    /\ catalogFile = <<>>
    /\ xpc = "idle"
    /\ full_folder_map = <<>>
    /\ folder_map = <<>>
    /\ fi = 0
    /\ full_services_map = <<>>
    /\ all_layer_map = {}
    /\ si = 0
    /\ li = 0
    /\ runs = 0
    /\ xSvcReq = {}
    /\ xReqCount = 0
    /\ xFolderLog = <<>>
    /\ xAbort = [at |-> "none", svc |-> <<>>, li |-> 0]
    /\ xSnap = [n |-> 0, catalog |-> <<>>, reqs |-> 0, marks |-> <<>>]
    /\ CheckOff

NextExplore ==
    \/ XStart \/ XPass \/ XFolderSkip \/ XFolderQuery \/ XFolderFail \/ XPassEnd
    \/ XOpen \/ XSvcContinue \/ XSvcInfo \/ XSvcFail
    \/ XLayerSkip \/ XLayerAdd \/ XLayerFail \/ XSvcDone \/ XFinish

SpecExplore == InitExplore /\ [][NextExplore]_vars

\* The folder walk of get_all_info.
XWalkStep == XPass \/ XFolderSkip \/ XFolderQuery \/ XFolderFail \/ XPassEnd

\* A running get_all_info does not stop in the middle of its folder walk.
SpecExploreLive == SpecExplore /\ WF_vars(XWalkStep)

\* Either entry point is run.
Init == InitScrape \/ InitExplore

Next == NextScrape \/ NextExplore

Spec == Init /\ [][Next]_vars

\* ---------------------------------------------------- check.py: run_checks

\* d[k] for a key the dict holds
DictAt(d, k) == d[CHOOSE i \in DOMAIN d : d[i].k = k].v

\* the keys of a dict
DictKeys(d) == {d[i].k : i \in DOMAIN d}

\* str.split('/')
RECURSIVE SplitAcc(_, _)
SplitAcc(s, cur) ==
    IF s = <<>> THEN <<cur>>
    ELSE IF Head(s) = SLASH THEN <<cur>> \o SplitAcc(Tail(s), <<>>)
    ELSE SplitAcc(Tail(s), Append(cur, Head(s)))

Split(s) == SplitAcc(s, <<>>)

\* Mutant: only the whole name counts as its suffix.
EndsWithWhole(s, suffix) == s = suffix

\* str.endswith(suffix)
EndsWith(s, suffix) ==
    /\ Len(suffix) <= Len(s)
    /\ SubSeq(s, Len(s) - Len(suffix) + 1, Len(s)) = suffix

\* read_all_layer_info: all_layer_map, keyed by (lowercase name, id); a later
\* entry with the same key replaces the earlier one
RECURSIVE LayerMapInto(_, _)
LayerMapInto(list, acc) ==
    IF list = <<>> THEN acc
    ELSE LayerMapInto(Tail(list),
                      DictSet(acc, <<Lower(Head(list).name), Head(list).id>>, Head(list)))

read_all_layer_info(list) == LayerMapInto(list, <<>>)

\* expand_layers: the suffixes '/'.join(parts[i:]) of a name, longest first
Suffixes(name) ==
    LET parts == Split(name)
    IN [i \in 1..Len(parts) |-> Join(SubSeq(parts, i, Len(parts)))]

RECURSIVE ExpandInto(_, _)
ExpandInto(layers, acc) ==
    IF layers = <<>> THEN acc
    ELSE ExpandInto(Tail(layers), DictSet(acc, Head(layers), Suffixes(Head(layers)[1])))

\* expand_layers
expand_layers(layers) == ExpandInto(layers, <<>>)

\* get_missing_layer_list: no_go_list = [service_name + '/' + l for l in no_go_list]
NoGoList(service_name, no_go_list) ==
    [i \in DOMAIN no_go_list |-> service_name \o <<SLASH>> \o no_go_list[i]]

\* get_missing_layer_list: the entry is appended to full_missing
MissingKeeps(e, done, ignore) ==
    LET no_go_list == DictGet(ignore, e.service, List(<<>>))
    IN /\ <<Lower(e.name), e.id>> \notin Range(done)
       /\ ~no_go_list.isNone
       /\ e.name \notin Range(NoGoList(e.service, no_go_list.items))

\* get_missing_layer_list
get_missing_layer_list(list, done, ignore) ==
    SelectSeq(list, LAMBDA e : MissingKeeps(e, done, ignore))

\* list concatenation of a list of lists
RECURSIVE Concat(_)
Concat(seqs) == IF seqs = <<>> THEN <<>> ELSE Head(seqs) \o Concat(Tail(seqs))

\* get_possible_matches: the order in which the three nested loops meet
\* (done layer, suffix, missing entry)
ScanOrder(done, expanded, fmissing) ==
    Concat([d \in DOMAIN done |->
        LET suffixes == DictAt(expanded, done[d])
        IN Concat([j \in DOMAIN suffixes |->
               [i \in DOMAIN fmissing |->
                   [layer |-> done[d], suffix |-> suffixes[j], e |-> fmissing[i]]]])])

\* get_possible_matches: the body of the innermost loop
CollectStep(pm, t, flm) ==
    LET dfcount == DictAt(flm, t.layer).fcount
        lname == Lower(t.e.name)
        lid == t.e.id
        lfcount == DictAt(flm, <<lname, lid>>).fcount
    IN IF EndsWith(lname, t.suffix) /\ dfcount = lfcount
       THEN DictSet(pm, lname, Append(DictGet(pm, lname, <<>>), <<t.layer, t.suffix>>))
       ELSE pm

RECURSIVE CollectInto(_, _, _)
CollectInto(scan, pm, flm) ==
    IF scan = <<>> THEN pm
    ELSE CollectInto(Tail(scan), CollectStep(pm, Head(scan), flm), flm)

\* get_possible_matches, lines 59-78: possible_matches
collect_matches(done, expanded, flm, fmissing) ==
    CollectInto(ScanOrder(done, expanded, fmissing), <<>>, flm)

\* list.sort is stable, also with reverse=True: an element goes behind the
\* elements whose suffix is as long or longer
RECURSIVE InsertByLen(_, _)
InsertByLen(sorted, t) ==
    IF sorted = <<>> THEN <<t>>
    ELSE IF Len(Head(sorted)[2]) >= Len(t[2])
         THEN <<Head(sorted)>> \o InsertByLen(Tail(sorted), t)
         ELSE <<t>> \o sorted

RECURSIVE SortInto(_, _)
SortInto(matches, sorted) ==
    IF matches = <<>> THEN sorted
    ELSE SortInto(Tail(matches), InsertByLen(sorted, Head(matches)))

\* Mutant: the candidates are left in scan order.
SortBySuffixLenNot(matches) == matches

\* matches.sort(key=lambda t: len(t[1]), reverse=True)
SortBySuffixLen(matches) == SortInto(matches, <<>>)

\* get_possible_matches, lines 80-85: possible_best_matches
best_matches(pm) ==
    [i \in DOMAIN pm |-> [k |-> pm[i].k, v |-> SortBySuffixLen(pm[i].v)[1][1]]]

\* prune_missing
prune_missing(fmissing, matched_set, known) ==
    SelectSeq(fmissing, LAMBDA e : Lower(e.name) \notin matched_set
                                    /\ ~DictHas(known, e.name))

checkInputs == <<full_list, done_layers, match_ignore, known_matches>>

\* run_checks, line 181: read_all_layer_info
CkReadAll ==
    /\ cpc = "read"
    /\ full_list_map' = read_all_layer_info(full_list)
    /\ cpc' = "expand"
    /\ UNCHANGED <<checkInputs, done_layers_expanded, full_missing, possible_matches,
                   possible_best_matches, missing, scrapeVars, sharedVars, exploreVars>>

\* run_checks, line 187: expand_layers
CkExpand ==
    /\ cpc = "expand"
    /\ done_layers_expanded' = expand_layers(done_layers)
    /\ cpc' = "missing"
    /\ UNCHANGED <<checkInputs, full_list_map, full_missing, possible_matches,
                   possible_best_matches, missing, scrapeVars, sharedVars, exploreVars>>

\* run_checks, line 192: get_missing_layer_list
CkMissing ==
    /\ cpc = "missing"
    /\ full_missing' = get_missing_layer_list(full_list, done_layers, match_ignore)
    /\ cpc' = "candidates"
    /\ UNCHANGED <<checkInputs, full_list_map, done_layers_expanded, possible_matches,
                   possible_best_matches, missing, scrapeVars, sharedVars, exploreVars>>

\* get_possible_matches: the candidates of every missing name are collected
CkCandidates ==
    /\ cpc = "candidates"
    /\ possible_matches' = collect_matches(done_layers, done_layers_expanded,
                                           full_list_map, full_missing)
    /\ cpc' = "best"
    /\ UNCHANGED <<checkInputs, full_list_map, done_layers_expanded, full_missing,
                   possible_best_matches, missing, scrapeVars, sharedVars, exploreVars>>

\* get_possible_matches: the best candidate of every name is selected
CkBest ==
    /\ cpc = "best"
    /\ possible_best_matches' = best_matches(possible_matches)
    /\ cpc' = "prune"
    /\ UNCHANGED <<checkInputs, full_list_map, done_layers_expanded, full_missing,
                   possible_matches, missing, scrapeVars, sharedVars, exploreVars>>

\* run_checks, lines 197-210: prune_missing; both reports are written
CkPrune ==
    /\ cpc = "prune"
    /\ missing' = prune_missing(full_missing, DictKeys(possible_best_matches), known_matches)
    /\ cpc' = "written"
    /\ UNCHANGED <<checkInputs, full_list_map, done_layers_expanded, full_missing,
                   possible_matches, possible_best_matches, scrapeVars, sharedVars,
                   exploreVars>>

\* ------------------------------------------------- inputs of run_checks

\* Done layers of one run_checks call in the model.
MaxDone == 3

\* Record counts a catalog entry can carry.
FCounts == {1, 2}

cAGL == <<"A", "/", "M", "/", "G", "/", "L">>
cFBGL == <<"F", "/", "B", "/", "M", "/", "G", "/", "L">>
cFBL == <<"F", "/", "B", "/", "M", "/", "L">>
caL == <<"a", "/", "M", "/", "L">>

\* get_all_info: an entry of the catalog (fnames is not read by run_checks)
CatalogEntry(name, id, service, fcount) ==
    [name |-> name, id |-> id, service |-> service, fcount |-> fcount]

\* A catalog as get_all_info writes it: layer G/L of A/M twice, as siblings
\* with the same display name and the ids 1 and 3, G/L and L of F/B/M, L of a/M.
CatalogOf(c) ==
    << CatalogEntry(cAGL, 1, svcA, c[1]),
       CatalogEntry(cAGL, 3, svcA, c[2]),
       CatalogEntry(cFBGL, 0, svcFB, c[3]),
       CatalogEntry(cFBL, 1, svcFB, c[4]),
       CatalogEntry(caL, 1, svca, c[5]) >>

\* already_done: (layer_name.lower(), layer_id) of a catalog entry
DoneKey(e) == <<Lower(e.name), e.id>>

\* The done layers: up to MaxDone layers of the catalog, in any iteration order.
DoneSeqs(list) ==
    LET keys == {DoneKey(list[i]) : i \in DOMAIN list}
    IN {s \in UNION {[1..n -> keys] : n \in 0..MaxDone} :
          \A i, j \in DOMAIN s : i # j => s[i] # s[j]}

\* match_ignore / known_matches of the model: none; F/B/M ignored entirely and
\* layer 'G/L_3' of A/M ignored; layer 'L' of F/B/M ignored and F/B/M/G/L known
\* to be covered.
IgnoreNone == <<>>
IgnoreDocumented ==
    << [k |-> svcFB, v |-> None],
       [k |-> svcA, v |-> List(<< <<"G", "/", "L", "_", "3">> >>)] >>
IgnoreUnsuffixed == << [k |-> svcFB, v |-> List(<< <<"L">> >>)] >>
KnownNone == <<>>
KnownOne == << [k |-> cFBGL, v |-> cAGL] >>

CheckOptions ==
    { [match_ignore |-> IgnoreNone, known_matches |-> KnownNone],
      [match_ignore |-> IgnoreNone, known_matches |-> KnownOne],
      [match_ignore |-> IgnoreDocumented, known_matches |-> KnownNone],
      [match_ignore |-> IgnoreUnsuffixed, known_matches |-> KnownOne] }

\* The example: two services that expose the same layer.
exA == <<"s", "v", "c", "A">>
exB == <<"s", "v", "c", "B">>
exLayer1 == <<"L", "a", "y", "e", "r", "1">>
ExampleCatalog ==
    << CatalogEntry(exA \o <<SLASH>> \o exLayer1, 5, exA, 10),
       CatalogEntry(exB \o <<SLASH>> \o exLayer1, 7, exB, 10) >>
ExampleDone == << <<Lower(exA \o <<SLASH>> \o exLayer1), 5>> >>

\* The downloader is not running.
ScrapeOff ==
    /\ to_scrape = <<>>
    /\ delay = 0
    /\ max_delay = 0
    /\ ScrapeBlank
    /\ pc = "off"

InitCheck ==
    /\ \/ \E c \in [1..5 -> FCounts] :
            /\ full_list = CatalogOf(c)
            /\ done_layers \in DoneSeqs(CatalogOf(c))
            /\ \E o \in CheckOptions :
                  /\ match_ignore = o.match_ignore
                  /\ known_matches = o.known_matches
       \/ /\ full_list = ExampleCatalog
          /\ done_layers = ExampleDone
          /\ match_ignore = <<>>
          /\ known_matches = <<>>
    /\ cpc = "read"
    /\ full_list_map = <<>>
    /\ done_layers_expanded = <<>>
    /\ full_missing = <<>>
    /\ possible_matches = <<>>
    /\ possible_best_matches = <<>>
    /\ missing = <<>>
    /\ blacklist = <<>>
    /\ folder_blacklist = <<>>
    /\ ScrapeOff
    /\ ExploreOff

NextCheck == CkReadAll \/ CkExpand \/ CkMissing \/ CkCandidates \/ CkBest \/ CkPrune

SpecCheck == InitCheck /\ [][NextCheck]_vars

\* ------------------------------------------------- check.py: already_done

\* The tokens scrape_endpoint and compress_and_push_to_gcs write to a status file
LifecycleTokens == {"wip", "not_layer", "ignore", "downloaded", "compressed", "done"}

\* The end of a status file's name
StatusExt ==
    <<".", "g", "e", "o", "j", "s", "o", "n", "l", ".", "s", "t", "a", "t", "u", "s">>

\* scrape_endpoint: layer_file_status, relative to the data folder
StatusFileName(k) == k[1] \o <<SLASH>> \o k[2] \o StatusExt

\* already_done: data_folder.glob('**/*.geojsonl.status'), the keys of the
\* status files that exist, service by service
RECURSIVE GlobInto(_, _, _)
GlobInto(keys, st, acc) ==
    IF keys = {} THEN acc
    ELSE LET k == CHOOSE x \in keys :
                    \A y \in keys : Len(StatusFileName(x)) <= Len(StatusFileName(y))
         IN GlobInto(keys \ {k}, st,
                     IF st[k] = "none" THEN acc ELSE Append(acc, k))

Digits == {"0", "1", "2", "3", "4", "5", "6", "7", "8", "9"}

DigitVal(c) ==
    CASE c = "0" -> 0 [] c = "1" -> 1 [] c = "2" -> 2 [] c = "3" -> 3
      [] c = "4" -> 4 [] c = "5" -> 5 [] c = "6" -> 6 [] c = "7" -> 7
      [] c = "8" -> 8 [] OTHER -> 9

\* already_done: int(m.group(2))
RECURSIVE ParseInt(_, _)
ParseInt(ds, acc) ==
    IF ds = <<>> THEN acc ELSE ParseInt(Tail(ds), 10 * acc + DigitVal(Head(ds)))

\* already_done: re.match(r'(.*)_([0-9]+)\.geojsonl\.status', fname): the
\* positions of an underscore followed by digits and the extension; the greedy
\* first group takes the last of them
MatchPositions(fname) ==
    {i \in DOMAIN fname :
        /\ fname[i] = "_"
        /\ \E j \in (i + 1)..Len(fname) :
              /\ \A d \in (i + 1)..j : fname[d] \in Digits
              /\ SubSeq(fname, j + 1, Len(fname)) = StatusExt}

\* already_done: the loop over the status files; a status outside the skipped
\* ones and 'done' raises, and so does a name the pattern does not match
RECURSIVE AlreadyDoneInto(_, _, _)
AlreadyDoneInto(files, st, acc) ==
    IF files = <<>> THEN [raised |-> FALSE, done_layers |-> acc]
    ELSE LET k == Head(files)
             fname == StatusFileName(k)
             m == MatchPositions(fname)
         IN IF st[k] \in {"not_layer", "raster_layer", "wip"}
            THEN AlreadyDoneInto(Tail(files), st, acc)
            ELSE IF st[k] # "done" \/ m = {}
            THEN [raised |-> TRUE, done_layers |-> <<>>]
            ELSE LET i == CHOOSE x \in m : \A y \in m : y <= x
                     layer_name == SubSeq(fname, 1, i - 1)
                     layer_id == ParseInt(SubSeq(fname, i + 1, Len(fname) - Len(StatusExt)), 0)
                 IN AlreadyDoneInto(Tail(files), st,
                                    Append(acc, <<Lower(layer_name), layer_id>>))

already_done(st) == AlreadyDoneInto(GlobInto(LayerKeys, st, <<>>), st, <<>>)

\* run_checks, line 184: already_done returns the done layers
AdReturn ==
    /\ cpc = "done_scan"
    /\ ~already_done(status).raised
    /\ done_layers' = already_done(status).done_layers
    /\ cpc' = "done_returned"
    /\ UNCHANGED <<full_list, match_ignore, known_matches, full_list_map,
                   done_layers_expanded, full_missing, possible_matches,
                   possible_best_matches, missing, scrapeVars, sharedVars, exploreVars>>

\* run_checks, line 184: already_done raises Exception('unexpected')
AdRaise ==
    /\ cpc = "done_scan"
    /\ already_done(status).raised
    /\ cpc' = "done_raised"
    /\ UNCHANGED <<checkInputs, full_list_map, done_layers_expanded, full_missing,
                   possible_matches, possible_best_matches, missing, scrapeVars,
                   sharedVars, exploreVars>>

\* A data folder in which each layer has no status file or one holding a
\* lifecycle token.
InitDone ==
    /\ status \in [LayerKeys -> LifecycleTokens \cup {"none"}]
    /\ artifact = [k \in LayerKeys |-> [exists |-> FALSE, lines |-> <<>>]]
    /\ stateFile = [k \in LayerKeys |-> -1]
    /\ cfile = [k \in LayerKeys |-> FALSE]
    /\ layers_list_file = <<>>
    /\ uploaded = {}
    /\ attempt = 0
    /\ svcIdx = 0
    /\ layerIdx = 0
    /\ cursor = 0
    /\ fbuf = <<>>
    /\ hookSite = "none"
    /\ exc = "none"
    /\ sleeps = <<>>
    /\ restarts = 0
    /\ epCalled = {}
    /\ remoteReq = {}
    /\ to_scrape = <<>>
    /\ delay = 0
    /\ max_delay = 0
    /\ pc = "off"
    /\ cpc = "done_scan"
    /\ full_list = <<>>
    /\ done_layers = <<>>
    /\ match_ignore = <<>>
    /\ known_matches = <<>>
    /\ full_list_map = <<>>
    /\ done_layers_expanded = <<>>
    /\ full_missing = <<>>
    /\ possible_matches = <<>>
    /\ possible_best_matches = <<>>
    /\ missing = <<>>
    /\ blacklist = <<>>
    /\ folder_blacklist = <<>>
    /\ ExploreOff

NextDone == AdReturn \/ AdRaise

SpecDone == InitDone /\ [][NextDone]_vars

\* ------------------------------------------------------------------ claims

StatusRank(st) ==
    CASE st = "none" -> 0
      [] st = "wip" -> 1
      [] st \in {"not_layer", "ignore", "downloaded"} -> 2
      [] st = "compressed" -> 3
      [] st = "done" -> 4

\* The layer behind a status file, and the records the remote holds for it.
KeyLayer(k) ==
    LET ls == RemoteLayers(k[1])
    IN ls[CHOOSE i \in DOMAIN ls : get_full_layer_name(ls, ls[i]) = k[2]]
KeyCount(k) == RemoteCount(k[1], KeyLayer(k).id)

\* C1: across attempts, failures and new invocations, no write to a layer's
\* status file moves it backward in wip < {not_layer, ignore, downloaded} <
\* compressed < done; 'done' is never overwritten.
C1_StatusNeverRegresses ==
    [][\A k \in LayerKeys :
          /\ StatusRank(status'[k]) >= StatusRank(status[k])
          /\ (status[k] = "done" => status'[k] = "done")]_vars

\* A later attempt meets a layer that is 'done' and the hook has just run on it.
C1_Witness ==
    /\ pc = "h_ret"
    /\ hookSite = "pre"
    /\ attempt >= 2
    /\ status[CurKey] = "done"

\* C2: whenever a layer's status is 'downloaded', its artifact holds each of the
\* layer's records exactly once, whatever interruptions came before.
C2_ArtifactExactlyOnce ==
    \A k \in LayerKeys :
        (status[k] = "downloaded" /\ artifact[k].exists)
            => artifact[k].lines = [i \in 1..KeyCount(k) |-> i]

C4_CursorOnlyWhileWip ==
    \A k \in LayerKeys : stateFile[k] # -1 => status[k] = "wip"

\* C5: the wrapper returns only from an attempt in which scrape_map_servers went
\* through every service and returned true, and an exception that reaches the
\* wrapper is always followed by the next turn of its loop.
C5_ReturnsOnlyOnSuccess ==
    [][/\ (pc' = "returned" /\ pc # "returned") =>
              (pc = "svc_loop" /\ svcIdx > Len(to_scrape) /\ exc = "none")
       /\ (pc = "wrap_except" => pc' = "wrap_loop")]_vars

\* The wrapper returned after at least one failed attempt.
C5_Witness ==
    /\ pc = "returned"
    /\ attempt >= 2
    /\ restarts = 0

Min(a, b) == IF a <= b THEN a ELSE b

\* C6: the sleep before attempt k (k = 0, 1, ...) is min(delay * k, max_delay);
\* the counter advances once per attempt, the sleeps never decrease and never
\* exceed max_delay.
C6_SleepSchedule ==
    /\ Len(sleeps) = attempt
    /\ \A i \in DOMAIN sleeps :
          /\ sleeps[i] = Min(delay * (i - 1), max_delay)
          /\ sleeps[i] <= max_delay
          /\ (i > 1 => sleeps[i - 1] <= sleeps[i])
    /\ (sleeps # <<>> => sleeps[1] = 0)

\* Three attempts were made and the third sleep was capped.
C6_Witness ==
    /\ Len(sleeps) >= 3
    /\ delay * 2 > max_delay
    /\ sleeps[3] = max_delay
    /\ sleeps[2] = delay

\* C7: once a run of get_all_info has completed, later runs against the same
\* remote leave the catalog as it was and issue no per-service or per-layer
\* request.
C7_SecondRunAddsNothing ==
    xSnap.n > 0 => (catalogFile = xSnap.catalog /\ xReqCount = xSnap.reqs)

\* A second run completed over a catalog that is not empty.
C7_Witness ==
    /\ xSnap.n >= 2
    /\ Len(catalogFile) >= 2
    /\ xpc = "idle"

\* The key of a leaf layer of a service, and whether the blacklist names it.
LeafKeys(service) ==
    LET ls == RemoteLayers(service)
        listed == DictGet(blacklist, service, List(<<>>)).items
    IN {<<service \o <<SLASH>> \o explore_full_layer_name(ls, ls[i]), ls[i].id>> :
          i \in {j \in DOMAIN ls :
                    /\ Len(ls[j].subLayerIds) = 0
                    /\ (explore_full_layer_name(ls, ls[j]) \o <<"_">> \o IdStr(ls[j].id))
                          \notin Range(listed)}}

\* C8: every service in full_services_list.txt has all its leaf layers that the
\* blacklist does not name in the catalog; a run aborted within a service's
\* layers leaves that service unmarked; and no entry is appended a second time.
C8_MarkedOnlyWhenComplete ==
    /\ \A i \in DOMAIN servicesFile :
          LeafKeys(servicesFile[i]) \subseteq CatalogKeys(catalogFile)
    /\ (xpc = "idle" /\ xAbort.at = "layer") => xAbort.svc \notin Range(servicesFile)
    /\ \A i, j \in DOMAIN catalogFile :
          (catalogFile[i].name = catalogFile[j].name /\ catalogFile[i].id = catalogFile[j].id)
              => i = j

\* A run was aborted within the layers of A/M after one of its two leaf layers
\* was appended, and the next run has marked A/M.
C8_Witness ==
    /\ xAbort = [at |-> "layer", svc |-> svcA, li |-> 3]
    /\ xpc = "svc"
    /\ svcA \in Range(servicesFile)
    /\ runs >= 2

\* C9: no two catalog entries share the key (lowercase(name), id).
C9_UniqueLowerKey ==
    \A i, j \in DOMAIN catalogFile :
        (Lower(catalogFile[i].name) = Lower(catalogFile[j].name)
            /\ catalogFile[i].id = catalogFile[j].id) => i = j

\* The services the blacklist maps to None.
NoneListed == {blacklist[i].k : i \in {j \in DOMAIN blacklist : blacklist[j].v.isNone}}

\* C10: for a service the blacklist maps to None, discovery never requests its
\* layer definitions and never appends an entry for it, and the downloader never
\* calls scrape_endpoint for it: no request, no layer list, no status file.
C10_DeniedServiceUntouched ==
    \A s \in NoneListed :
        /\ s \notin xSvcReq
        /\ \A i \in DOMAIN catalogFile : catalogFile[i].service # s
        /\ s \notin Range(servicesFile)
        /\ s \notin epCalled
        /\ \A r \in remoteReq : r.svc # s
        /\ ~DictHas(layers_list_file, s)
        /\ \A k \in LayerKeys : k[1] = s => status[k] = "none"

\* The downloader returned, with F/B/M excluded entirely and a whitelist
\* configured for it.
C10_Witness ==
    /\ svcFB \in NoneListed
    /\ pc = "returned"
    /\ \E i \in DOMAIN to_scrape :
          to_scrape[i].k = svcFB /\ ~to_scrape[i].v.whitelist.isNone

\* ---------------------------------------------------------------- claim C11

\* The filter as documented: on the blacklist, or a non-empty whitelist that
\* does not hold the name.
DocumentedSkip(layer_name, whitelist, svc_blacklist) ==
    \/ layer_name \in Range(svc_blacklist.items)
    \/ (~whitelist.isNone /\ whitelist.items # <<>>
          /\ layer_name \notin Range(whitelist.items))

\* C11: scrape_endpoint passes over a layer exactly when its name is on the
\* blacklist or a non-empty whitelist is configured and the name is not in it;
\* with a missing or empty whitelist every layer off the blacklist is processed.
C11_FilterAsDocumented ==
    [][(pc = "layer_loop" /\ layerIdx <= Len(CurLayers) /\ restarts' = restarts)
          => ((pc' = "layer_loop" /\ layerIdx' = layerIdx + 1)
                <=> DocumentedSkip(CurName, CurInfo.whitelist, SvcBlacklist(CurSvc)))]_vars

\* ---------------------------------------------------------------- claim C12

\* C12: every missing catalog entry whose lowercase name is a key of the match
\* report has the record count of the done layer the report maps it to; an
\* entry whose count differs is not in the report.
C12_MatchedCountsAgree ==
    cpc = "written" =>
        \A i \in DOMAIN full_missing :
            LET e == full_missing[i]
            IN DictHas(possible_best_matches, Lower(e.name)) =>
                  e.fcount = DictAt(full_list_map,
                                    DictAt(possible_best_matches, Lower(e.name))).fcount

\* ---------------------------------------------------------------- claim C13

\* The (done layer, suffix) candidates of a missing entry, from the inputs: the
\* lowercase name ends with a suffix of the done layer and the counts agree.
HasCandidate(e) ==
    \E d \in DOMAIN done_layers :
        /\ \E suffix \in Range(Suffixes(done_layers[d][1])) : EndsWith(Lower(e.name), suffix)
        /\ DictAt(full_list_map, done_layers[d]).fcount
             = DictAt(full_list_map, <<Lower(e.name), e.id>>).fcount

\* The longest suffix among the candidates c, and the first candidate that has it.
MaxSuffixLen(c) ==
    CHOOSE n \in {Len(c[i][2]) : i \in DOMAIN c} : \A i \in DOMAIN c : Len(c[i][2]) <= n

FirstLongest(c) ==
    CHOOSE i \in DOMAIN c :
        /\ Len(c[i][2]) = MaxSuffixLen(c)
        /\ \A j \in 1..(i - 1) : Len(c[j][2]) < MaxSuffixLen(c)

exKeyA == Lower(exA \o <<SLASH>> \o exLayer1)
exKeyB == Lower(exB \o <<SLASH>> \o exLayer1)

SuffixedLayerName(e) ==
    SubSeq(e.name, Len(e.service) + 2, Len(e.name)) \o <<"_">> \o IdStr(e.id)

\* An entry is covered by match_ignore as documented: the value of its service
\* is None, or lists the layer name suffixed _<layer_id>.
DocumentedCover(e, ignore) ==
    LET v == DictGet(ignore, e.service, List(<<>>))
    IN v.isNone \/ SuffixedLayerName(e) \in Range(v.items)

\* C15: get_missing_layer_list returns exactly the catalog entries that are not
\* done, by (lowercase name, id), and not covered by match_ignore, where
\* match_ignore names a layer by its name within the service suffixed _<id>.
C15_MissingAsDocumented ==
    cpc \in {"candidates", "best", "prune", "written"} =>
        full_missing = SelectSeq(full_list,
                                 LAMBDA e : /\ DoneKey(e) \notin Range(done_layers)
                                            /\ ~DocumentedCover(e, match_ignore))

\* ---------------------------------------------------------------- claim C16

\* C16: the residual report is the missing list, in catalog order, without the
\* entries that themselves received a match and without the entries whose
\* literal name is a key of known_matches; an entry with no match that is not
\* a known equivalent is always in it.
C16_ResidualExact ==
    cpc = "written" =>
        missing = SelectSeq(full_missing,
                            LAMBDA e : /\ ~HasCandidate(e)
                                       /\ ~DictHas(known_matches, e.name))

\* ---------------------------------------------------------------- claim C17

\* The positions inside compress_and_push_to_gcs.
HookPcs == {"h_start", "h_7z", "h_unlink", "h_wcomp", "h_mid", "h_gsutil",
            "h_cunlink", "h_wdone", "h_ret"}

\* C17: compress_and_push_to_gcs returns true exactly when the status it leaves
\* is done, not_layer or ignore (the caller then goes to the next layer); on a
\* layer whose status is wip it changes neither the status nor the artifact
\* and returns false, and the caller goes on to the metadata and the download.
C17_HookResult ==
    [][(pc \in HookPcs /\ restarts' = restarts) =>
          /\ (pc = "h_ret" /\ hookSite = "pre") =>
                /\ (pc' = "layer_loop" /\ layerIdx' = layerIdx + 1)
                      <=> status[CurKey] \in {"done", "not_layer", "ignore"}
                /\ (pc' = "meta" /\ layerIdx' = layerIdx)
                      <=> status[CurKey] \notin {"done", "not_layer", "ignore"}
          /\ status[CurKey] = "wip" =>
                /\ status' = status
                /\ artifact' = artifact
                /\ cfile' = cfile
                /\ uploaded' = uploaded
                /\ pc' \in {"h_mid", "h_ret", "meta"}]_vars

\* The hook was called on a wip layer with a partly written artifact and has
\* returned false: the downloader is at the layer's metadata again.
C17_Witness ==
    /\ pc = "meta"
    /\ status[CurKey] = "wip"
    /\ artifact[CurKey].lines # <<>>
    /\ stateFile[CurKey] > 0

\* ---------------------------------------------------------------- claim C18

\* C18: a layer that passes the filter and has no status file gets the status
\* wip before any request about it is issued; a layer a metadata or record
\* request was ever issued for has a status file.
C18_WipBeforeRequest ==
    /\ [](/\ pc \in {"meta", "dl_iter"} => status[CurKey] # "none"
          /\ \A r \in remoteReq : r.kind # "list" => status[<<r.svc, r.name>>] # "none")
    /\ [][(/\ pc = "layer_loop"
            /\ layerIdx <= Len(CurLayers)
            /\ ~LayerSkipped(CurName, CurInfo.whitelist, SvcBlacklist(CurSvc))
            /\ status[CurKey] = "none"
            /\ restarts' = restarts)
           => /\ status'[CurKey] = "wip"
              /\ remoteReq' = remoteReq]_vars

\* Records of a layer were requested and its status is wip.
C18_Witness ==
    \E r \in remoteReq : r.kind = "records" /\ status[<<r.svc, r.name>>] = "wip"

\* ---------------------------------------------------------------- claim C19

NothingDownloaded(k) ==
    /\ ~artifact[k].exists
    /\ artifact[k].lines = <<>>
    /\ stateFile[k] = -1
    /\ ~cfile[k]
    /\ k \notin uploaded
    /\ [kind |-> "records", svc |-> k[1], name |-> k[2]] \notin remoteReq

C21_DownloadedAfterExhaustion ==
    [][/\ \A k \in LayerKeys :
            (status'[k] = "downloaded" /\ status[k] # "downloaded")
            => /\ pc = "dl_iter"
               /\ CurKey = k
               /\ cursor = KeyCount(k)
               /\ \A n \in 1..KeyCount(k) : n \in Range(artifact'[k].lines)
               /\ pc' = "h_start"
               /\ hookSite' = "post"
       /\ (pc' = "h_start" /\ hookSite' = "post" /\ pc # "h_start")
            => (pc = "dl_iter" /\ status'[CurKey] = "downloaded")
       /\ (pc \in HookPcs /\ hookSite = "post" /\ restarts' = restarts)
            => \/ pc' \in HookPcs \ {"h_start"}
               \/ pc' = "wrap_except"
               \/ pc' = "layer_loop" /\ layerIdx' = layerIdx + 1]_vars

\* ---------------------------------------------------------------- claim C22

\* Depth of the remote folder tree of the model.
TreeDepth == 2

\* The folders listed by a folder that answers without error, by full path,
\* without those on the folder deny-list.
AllowedChildren(folder) ==
    IF RemoteFolder(folder).error THEN {}
    ELSE {FolderPath(folder, c) : c \in Range(RemoteFolder(folder).folders)}
            \ Range(folder_blacklist)

\* The folders reachable from the root in at most n steps.
RECURSIVE ReachableWithin(_)
ReachableWithin(n) ==
    IF n = 0 THEN {<<>>}
    ELSE ReachableWithin(n - 1)
           \cup UNION {AllowedChildren(f) : f \in ReachableWithin(n - 1)}

\* C22: the folder walk terminates; in one run no folder is queried twice (a
\* folder that answered with an error included), no folder of the deny-list is
\* queried, and when the walk is over every folder reachable from the root
\* through folders off the deny-list has been queried.
C22_WalkOnceAndEnds ==
    /\ [](/\ \A i, j \in DOMAIN xFolderLog : i # j => xFolderLog[i] # xFolderLog[j]
          /\ Range(xFolderLog) \cap Range(folder_blacklist) = {}
          /\ Range(xFolderLog) \subseteq ReachableWithin(TreeDepth)
          /\ xpc \in {"open", "svc", "layer"}
                => Range(xFolderLog) = ReachableWithin(TreeDepth))
    /\ ((xpc \in {"pass", "folder"}) ~> (xpc \notin {"pass", "folder"}))

\* A walk of three passes is over: the root, F and X, then F/X were queried,
\* the last two answering with an error.
C22_Witness ==
    /\ xpc = "open"
    /\ xFolderLog = << <<>>, nF, nX, <<"F", "/", "X">> >>

\* ---------------------------------------------------------------- claim C23

\* C23: the catalog file only grows, by one entry at a time and at its end;
\* whenever a layer is queried every entry this run knows is in the file; a
\* run that aborts leaves the file with every entry appended so far.
C23_CatalogAppendOnly ==
    /\ [](xpc \in {"svc", "layer"} => all_layer_map = CatalogKeys(catalogFile))
    /\ [][/\ Len(catalogFile') >= Len(catalogFile)
          /\ Len(catalogFile') <= Len(catalogFile) + 1
          /\ SubSeq(catalogFile', 1, Len(catalogFile)) = catalogFile
          /\ (xpc = "layer" /\ xReqCount' # xReqCount)
                => all_layer_map \subseteq CatalogKeys(catalogFile)
          /\ (xpc # "idle" /\ xpc' = "idle") => catalogFile' = catalogFile]_vars

\* A later run was aborted at a layer of a service other than A/M; the entries
\* of A/M, appended before, are in the file.
C23_Witness ==
    /\ xpc = "idle"
    /\ runs >= 2
    /\ xAbort.at = "layer"
    /\ xAbort.svc # svcA
    /\ Len(catalogFile) >= 2
    /\ \E i \in DOMAIN catalogFile : catalogFile[i].service = svcA

\* ---------------------------------------------------------------- claim C27

\* C27: once a run has ended, completed or aborted by a remote error in the
\* folder walk, at a service or at a layer, every service name that was in
\* full_services_list.txt when the run started is in the file.
C27_MarksNeverLost ==
    xpc = "idle" => Range(xSnap.marks) \subseteq Range(servicesFile)

\* A run that started with A/M marked was aborted at a service or at a layer,
\* after the services file had been emptied and written again.
C27_Witness ==
    /\ xpc = "idle"
    /\ xAbort.at \in {"svc", "layer"}
    /\ xSnap.marks # <<>>
    /\ svcA \in Range(xSnap.marks)
    /\ svcA \in Range(servicesFile)

\* ---------------------------------------------------------------- claim C24

\* C24: the hook moves a status only from downloaded to compressed and from
\* compressed to done, and whenever the hook has written done neither the
\* artifact nor its archive is on disk, whatever was interrupted before.
C24_DoneLeavesNothing ==
    /\ [][\A k \in LayerKeys :
            (pc \in HookPcs /\ status'[k] # status[k])
            => \/ status[k] = "downloaded" /\ status'[k] = "compressed"
               \/ status[k] = "compressed" /\ status'[k] = "done"]_vars
    /\ [](\A k \in LayerKeys :
            status[k] = "done" => (~artifact[k].exists /\ ~cfile[k]))

\* ---------------------------------------------------------------- claim C26

\* The (lowercase name, id) pair of a layer key of the data folder.
KeyPair(k) ==
    LET id == KeyLayer(k).id
        bare == SubSeq(k[2], 1, Len(k[2]) - 1 - Len(IdStr(id)))
    IN <<Lower(k[1] \o <<SLASH>> \o bare), id>>

\* C26: on status files holding lifecycle tokens already_done does not raise,
\* and it returns exactly the pairs of the layers whose status is done.
C26_DoneSetOnLifecycleTokens ==
    /\ cpc # "done_raised"
    /\ cpc = "done_returned"
         => Range(done_layers) = {KeyPair(k) : k \in {x \in LayerKeys : status[x] = "done"}}

\* ---------------------------------------------------------------- claim C25

\* The layers scrape_endpoint is to handle: those of the services of to_scrape
\* that are not denied entirely, that pass the blacklist and whitelist test.
SelectedKeys ==
    {k \in LayerKeys :
        \E i \in DOMAIN to_scrape :
            /\ to_scrape[i].k = k[1]
            /\ ~SvcBlacklist(k[1]).isNone
            /\ ~LayerSkipped(k[2], to_scrape[i].v.whitelist, SvcBlacklist(k[1]))}

\* The attempts the model allows are used up.
AttemptsSpent == pc = "wrap_loop" /\ attempt = MaxAttempts

\* C25: whenever the wrapper has returned every selected layer is at done,
\* not_layer or ignore; and, failures being finitely many, the wrapper ends
\* up returned for good (or the failures have used up the attempts allowed).
C25_ReturnsWithAllTerminal ==
    /\ [](pc = "returned"
            => \A k \in SelectedKeys : status[k] \in {"done", "not_layer", "ignore"})
    /\ <>[](pc = "returned" \/ AttemptsSpent)

\* The wrapper has returned after a failed attempt and a termination, with G/L
\* of A/M gone through the hook to done and the raster layer ignored.
C25_Witness ==
    /\ pc = "returned"
    /\ attempt >= 2
    /\ restarts >= 1
    /\ SelectedKeys # {}
    /\ \E k \in SelectedKeys : status[k] = "done"
    /\ \E k \in SelectedKeys : status[k] = "ignore"

====
